---------------------------- MODULE Spec2Model ----------------------------
(***************************************************************************)
(* Model of the Pi-hole monitoring core: the category-list updater         *)
(* (domain_updater.py: DomainUpdater) and the category loader/classifier   *)
(* (log_parser.py: LogParser).                                             *)
(*                                                                         *)
(* Python strings are modelled as sequences of one-character strings, so   *)
(* that strip, split, lower, startswith, endswith and sorted are computed  *)
(* as Python computes them.                                                *)
(***************************************************************************)
EXTENDS Integers, Sequences, FiniteSets, TLC

(***************************************************************************)
(* Bounds of the model.                                                    *)
(***************************************************************************)
\* largest value of max_retries / retries drawn for a DomainUpdater
MaxRetries == 3
\* largest number of categories in CATEGORY_SOURCES
MaxCats == 2
\* largest number of source URLs in CATEGORY_SOURCES, all categories together
MaxUrls == 2
\* largest number of rows in the queries table
MaxRows == 2
\* largest value of days passed to parse_logs
MaxDays == 1
\* largest number of records in a batch passed to generate_summary alone
MaxBatch == 10
\* largest number of lines in a text passed to process_hosts_file alone
MaxLines == 2

(***************************************************************************)
(* Characters and Python string operations.                                *)
(***************************************************************************)
\* The alphabet in code-point order (tab < newline < space < '#' < '.' <
\* digits < upper case < lower case).
Chars ==
  << "\t", "\n", " ", "#", ".", "0", "1", "2", "7",
     "6", "8", "9", "A", "B", "C", "T", "V", "a", "b", "c", "d", "e", "h", "k",
     "l", "m", "n", "o", "p", "r", "s", "t", "u", "v", "x" >>

\* ord(c): position in code-point order
Ord(c) == CHOOSE i \in 1..Len(Chars) : Chars[i] = c

\* str.isspace for one character
IsSpace(c) == c \in {" ", "\t", "\n"}

\* str.lower for one character
LowerChar(c) ==
  CASE c = "A" -> "a"
    [] c = "B" -> "b"
    [] c = "C" -> "c"
    [] c = "T" -> "t"
    [] c = "V" -> "v"
    [] OTHER -> c

\* str.lower
lower(s) == [i \in 1..Len(s) |-> LowerChar(s[i])]

RECURSIVE lstrip(_)
lstrip(s) ==
  IF s = << >> THEN << >>
  ELSE IF IsSpace(Head(s)) THEN lstrip(Tail(s)) ELSE s

RECURSIVE rstrip(_)
rstrip(s) ==
  IF s = << >> THEN << >>
  ELSE IF IsSpace(s[Len(s)]) THEN rstrip(SubSeq(s, 1, Len(s) - 1)) ELSE s

\* str.strip()
strip(s) == rstrip(lstrip(s))

\* str.startswith(p)
startswith(s, p) == Len(p) <= Len(s) /\ SubSeq(s, 1, Len(p)) = p

\* str.endswith(p)
endswith(s, p) ==
  Len(p) <= Len(s) /\ SubSeq(s, Len(s) - Len(p) + 1, Len(s)) = p

\* str.splitlines(): the pieces between newlines, no empty piece after a
\* final newline
RECURSIVE SplitAt(_, _, _)
SplitAt(s, cur, acc) ==
  IF s = << >> THEN (IF cur = << >> THEN acc ELSE Append(acc, cur))
  ELSE IF Head(s) = "\n" THEN SplitAt(Tail(s), << >>, Append(acc, cur))
  ELSE SplitAt(Tail(s), Append(cur, Head(s)), acc)

splitlines(s) == SplitAt(s, << >>, << >>)

\* str.split(): the maximal runs of non-space characters
RECURSIVE SplitWs(_, _, _)
SplitWs(s, cur, acc) ==
  IF s = << >> THEN (IF cur = << >> THEN acc ELSE Append(acc, cur))
  ELSE IF IsSpace(Head(s))
       THEN SplitWs(Tail(s), << >>, IF cur = << >> THEN acc ELSE Append(acc, cur))
  ELSE SplitWs(Tail(s), Append(cur, Head(s)), acc)

split(s) == SplitWs(s, << >>, << >>)

\* s < t in Python's string order (lexicographic by code point)
RECURSIVE StrLess(_, _)
StrLess(s, t) ==
  IF t = << >> THEN FALSE
  ELSE IF s = << >> THEN TRUE
  ELSE IF Head(s) = Head(t) THEN StrLess(Tail(s), Tail(t))
  ELSE Ord(Head(s)) < Ord(Head(t))

\* sorted(S) for a set of strings
RECURSIVE sorted(_)
sorted(S) ==
  IF S = {} THEN << >>
  ELSE LET m == CHOOSE x \in S : \A y \in S \ {x} : StrLess(x, y)
       IN  << m >> \o sorted(S \ {m})

\* the set of elements of a sequence
Range(q) == {q[i] : i \in 1..Len(q)}

(***************************************************************************)
(* String literals used by the code.                                       *)
(***************************************************************************)
Hash == << "#" >>
Dot == << "." >>
SinkZero == << "0", ".", "0", ".", "0", ".", "0" >>
SinkLoop == << "1", "2", "7", ".", "0", ".", "0", ".", "1" >>
Localhost == << "l", "o", "c", "a", "l", "h", "o", "s", "t" >>

(***************************************************************************)
(* DomainUpdater.process_hosts_file                                        *)
(***************************************************************************)
\* a variant of lines 57-69 that lowercases the line
LineDomainsLower(raw) ==
  LET line == lower(strip(raw))
      parts == split(line)
  IN  IF line = << >> \/ startswith(line, Hash) THEN {}
      ELSE IF Len(parts) >= 2 /\ parts[1] \in {SinkZero, SinkLoop}
           THEN (IF parts[2] # Localhost THEN {parts[2]} ELSE {})
      ELSE {line}

\* the domains one line contributes (lines 57-69)
LineDomains(raw) ==
  LET line == strip(raw)
      parts == split(line)
  IN  IF line = << >> \/ startswith(line, Hash) THEN {}
      ELSE IF Len(parts) >= 2 /\ parts[1] \in {SinkZero, SinkLoop}
           THEN (IF parts[2] # Localhost THEN {parts[2]} ELSE {})
      ELSE {line}

process_hosts_file(content) ==
  UNION {LineDomains(l) : l \in Range(splitlines(content))}

(***************************************************************************)
(* Inputs of the model: configuration, source bodies, earlier files.       *)
(***************************************************************************)
\* category names, in the order CATEGORY_SOURCES lists them
CatNames == << "social", "porn", "malware", "gambling", "ads" >>

NL == << "\n" >>
Sp == << " " >>

\* "0.0.0.0 a.b\n# c\nb.c\n": hosts format, a comment, a bare domain
TextHosts ==
  SinkZero \o Sp \o << "a", ".", "b" >> \o NL \o Hash \o Sp \o << "c" >> \o NL
    \o << "b", ".", "c" >> \o NL

\* "127.0.0.1 localhost\n\n A.b \nc.b.\n": localhost, a blank line, a bare
\* upper-case domain with surrounding spaces, a domain with a trailing dot
TextMixed ==
  SinkLoop \o Sp \o Localhost \o NL \o NL \o Sp \o << "A", ".", "b" >> \o Sp \o NL
    \o << "c", ".", "b", "." >> \o NL

\* the bodies a source URL may serve
Texts == {TextHosts, TextMixed}

\* a category file: exists, and its lines (without the line terminators)
NoFile == [exists |-> FALSE, lines |-> << >>]
\* the file an earlier successful run left: "c.c\nx.c\n"
OldFile == [exists |-> TRUE, lines |-> << << "c", ".", "c" >>, << "x", ".", "c" >> >>]

\* update_metadata.json: absent, a complete record, or a partly written file
NoMeta == [state |-> "absent", results |-> << >>, total_categories |-> 0,
           successful_updates |-> 0]
\* the record an earlier run under an older configuration left
OldMeta == [state |-> "record", results |-> ("legacy" :> TRUE),
            total_categories |-> 1, successful_updates |-> 1]
PartialMeta == [state |-> "partial", results |-> << >>, total_categories |-> 0,
                successful_updates |-> 0]

\* sum of a sequence of numbers
RECURSIVE Sum(_)
Sum(q) == IF q = << >> THEN 0 ELSE Head(q) + Sum(Tail(q))

\* the configurations, as the number of URLs of each category: up to MaxCats
\* categories with up to MaxUrls URLs in all (a URL is named by its position
\* in its category's list)
Configs ==
  {cfg \in UNION {[1..n -> 0..MaxUrls] : n \in 0..MaxCats} : Sum(cfg) <= MaxUrls}

VARIABLES
  max_retries,   \* DomainUpdater.max_retries
  sources,       \* CATEGORY_SOURCES: sequence of [category, urls]
  pc,            \* position of the update run
  ci,            \* update_all_lists: index of the category being processed
  ui,            \* download_category: index of the URL being tried
  attempt,       \* download_with_retry: the loop variable
  all_domains,   \* download_category: all_domains
  success,       \* download_category: success
  wi,            \* download_category: lines written to the open file so far
  results,       \* update_all_lists: results
  disk,          \* the category files, by category
  metadata,      \* update_metadata.json
  ret,           \* outcome of update_all_lists: "none", "True", "False", "raise"
  dl,            \* outcome of the last download_with_retry call
  trace,         \* history: GETs and sleeps of the current download_with_retry call
  tried,         \* history: the URLs tried in the current download_category call
  body,          \* history: the text adopted in the current download_category call
  hist,          \* history: one record per finished download_category call
  before,        \* history: the category's file when download_category was called
  initial,       \* history: the files and the metadata record before the run
  parser,        \* a LogParser: whether constructed, and its categories
  query,         \* the domain last passed to categorize_domain
  category,      \* what categorize_domain returned for it ("" before any call)
  content,       \* the text passed to process_hosts_file
  domains,       \* what process_hosts_file returned for it
  normalized,    \* whether process_hosts_file has been called
  clock,         \* the wall clock, in seconds
  db,            \* the Pi-hole query store: the file, its queries table, its rows
  lpc,           \* position of the parse_logs / generate_summary call
  days,          \* parse_logs: days
  device_filter, \* parse_logs: device_filter
  now,           \* parse_logs: the value datetime.now() returned at line 114
  start_time,    \* parse_logs: int(start_time.timestamp())
  df,            \* parse_logs: df, the DataFrame it returns
  summary,       \* what generate_summary returned
  seen,          \* history: the rows of the store when line 127 read them
  fault          \* history: what made parse_logs return an empty DataFrame

updaterVars ==
  << max_retries, sources, pc, ci, ui, attempt, all_domains, success, wi, results,
     disk, metadata, ret, dl, trace, tried, body, hist, before, initial >>

\* the state of the log-parsing side
normVars == << content, domains, normalized >>

logVars ==
  << clock, db, lpc, days, device_filter, now, start_time, df, summary, seen,
     fault >>

parserVars == << parser, query, category, normVars, logVars >>

vars == << updaterVars, parserVars >>

\* the configured categories
Categories == {sources[i].category : i \in 1..Len(sources)}
\* the category being processed, and its URL list
Cat == sources[ci].category
Urls == sources[ci].urls

Pending == [kind |-> "pending", text |-> << >>, err |-> 0]

\* pd.DataFrame(): no columns, no rows
EmptyFrame == [columns |-> {}, rows |-> << >>]

\* process_hosts_file has not been called
NormIdle ==
  /\ content = << >>
  /\ domains = {}
  /\ normalized = FALSE

\* no query store, no parse_logs call
LogIdle ==
  /\ clock = 0
  /\ db = [exists |-> FALSE, table |-> FALSE, rows |-> << >>]
  /\ lpc = "idle"
  /\ days = 0
  /\ device_filter = << >>
  /\ now = 0
  /\ start_time = 0
  /\ df = EmptyFrame
  /\ summary = << >>
  /\ seen = << >>
  /\ fault = "none"

\* no update run has started
Idle ==
  /\ before = NoFile
  /\ pc = "start"
  /\ ci = 1
  /\ ui = 1
  /\ attempt = 0
  /\ all_domains = {}
  /\ success = FALSE
  /\ wi = 0
  /\ results = << >>
  /\ ret = "none"
  /\ dl = Pending
  /\ trace = << >>
  /\ tried = << >>
  /\ body = << >>
  /\ hist = << >>

Init ==
  /\ max_retries \in 0..MaxRetries
  /\ \E cfg \in Configs :
       sources = [i \in DOMAIN cfg |->
                    [category |-> CatNames[i], urls |-> [k \in 1..cfg[i] |-> k]]]
  /\ \E earlier \in BOOLEAN :
       \* an earlier run left its files and its record, or there was none
       /\ disk = [c \in {CatNames[i] : i \in 1..MaxCats} |->
                    IF earlier THEN OldFile ELSE NoFile]
       /\ metadata = IF earlier THEN OldMeta ELSE NoMeta
  /\ initial = [disk |-> disk, metadata |-> metadata]
  /\ Idle
  /\ parser = [loaded |-> FALSE, categories |-> << >>]
  /\ query = << >>
  /\ category = ""
  /\ NormIdle
  /\ LogIdle

(***************************************************************************)
(* DomainUpdater.download_with_retry, one step per GET and per sleep.      *)
(***************************************************************************)
\* line 40: the loop runs while attempt is in range(retries)
InRange(a, retries) == a < retries

\* line 48: a failed attempt is followed by a sleep unless it was the last
SleepsAfter(a, retries) == a < retries - 1

\* a variant of line 49 counting attempts from 1
BackoffOneBased(a) == 2 ^ (a + 1)

\* line 49: the backoff after failed attempt a, in seconds
Backoff(a) == 2 ^ a

\* line 51: the bare raise re-raises the exception of the attempt that just
\* failed (exceptions are named by the attempt that raised them)
Reraised(a) == [kind |-> "raise", text |-> << >>, err |-> a]

\* history events: a GET (attempt n, whether it succeeded, the body it got)
\* and a sleep of n seconds
GetEvent(ok, a, t) == [op |-> "get", ok |-> ok, n |-> a, text |-> t]
SleepEvent(secs) == [op |-> "sleep", ok |-> FALSE, n |-> secs, text |-> << >>]

\* what download_category records of one URL it tried
Tried(u, ok) ==
  [url |-> u, ok |-> ok,
   gets |-> Cardinality({i \in 1..Len(trace') : trace'[i].op = "get"})]

\* update_all_lists, lines 109-112: the run starts with an empty results map
UpdateAllLists ==
  /\ pc = "start"
  /\ pc' = "category"
  /\ ci' = 1
  /\ results' = << >>
  /\ UNCHANGED << max_retries, sources, ui, attempt, all_domains, success, wi, disk,
                  metadata, ret, dl, trace, tried, body, hist, before, initial, parserVars >>

\* a variant of lines 75-78 that opens the output file before downloading
DownloadCategoryOpensFirst ==
  /\ pc = "category"
  /\ ci <= Len(sources)
  /\ pc' = "url"
  /\ all_domains' = {}
  /\ success' = FALSE
  /\ ui' = 1
  /\ tried' = << >>
  /\ body' = << >>
  /\ before' = disk[Cat]
  /\ disk' = [disk EXCEPT ![Cat] = [exists |-> TRUE, lines |-> << >>]]
  /\ UNCHANGED << max_retries, sources, ci, attempt, wi, results, metadata, ret,
                  dl, trace, hist, initial, parserVars >>

\* update_all_lists line 113-115 calling download_category, lines 75-78
DownloadCategory ==
  /\ pc = "category"
  /\ ci <= Len(sources)
  /\ pc' = "url"
  /\ all_domains' = {}
  /\ success' = FALSE
  /\ ui' = 1
  /\ tried' = << >>
  /\ body' = << >>
  /\ before' = disk[Cat]
  /\ UNCHANGED << max_retries, sources, ci, attempt, wi, results, disk, metadata, ret,
                  dl, trace, hist, initial, parserVars >>

\* download_category line 80 calling download_with_retry, lines 37-40
DownloadWithRetry ==
  /\ pc = "url"
  /\ ui <= Len(Urls)
  /\ pc' = "get"
  /\ attempt' = 0
  /\ trace' = << >>
  /\ dl' = Pending
  /\ UNCHANGED << max_retries, sources, ci, ui, all_domains, success, wi, results, disk,
                  metadata, ret, tried, body, hist, before, initial, parserVars >>

\* a variant of lines 81-85 without the break: the next URL is tried too
GetOkNoBreak ==
  /\ pc = "get"
  /\ InRange(attempt, max_retries)
  /\ \E t \in Texts :
       /\ dl' = [kind |-> "text", text |-> t, err |-> 0]
       /\ all_domains' = all_domains \cup process_hosts_file(t)
       /\ body' = t
       /\ trace' = Append(trace, GetEvent(TRUE, attempt, t))
  /\ success' = TRUE
  /\ tried' = Append(tried, Tried(ui, TRUE))
  /\ ui' = ui + 1
  /\ pc' = IF ui < Len(Urls) THEN "url" ELSE "open"
  /\ UNCHANGED << max_retries, sources, ci, attempt, wi, results, disk, metadata,
                  ret, hist, before, initial, parserVars >>

\* lines 43-45 and 81-85: the GET succeeds with body t; download_with_retry
\* returns it, download_category normalizes it, adopts the domains and breaks
GetOk ==
  /\ pc = "get"
  /\ InRange(attempt, max_retries)
  /\ \E t \in Texts :
       /\ dl' = [kind |-> "text", text |-> t, err |-> 0]
       /\ all_domains' = all_domains \cup process_hosts_file(t)
       /\ body' = t
       /\ trace' = Append(trace, GetEvent(TRUE, attempt, t))
  /\ success' = TRUE
  /\ tried' = Append(tried, Tried(ui, TRUE))
  /\ pc' = "open"
  /\ UNCHANGED << max_retries, sources, ci, ui, attempt, wi, results, disk, metadata,
                  ret, hist, before, initial, parserVars >>

\* lines 46-49: the GET raises a RequestException and attempts remain
GetFailRetry ==
  /\ pc = "get"
  /\ InRange(attempt, max_retries)
  /\ SleepsAfter(attempt, max_retries)
  /\ trace' = Append(trace, GetEvent(FALSE, attempt, << >>))
  /\ pc' = "sleep"
  /\ UNCHANGED << max_retries, sources, ci, ui, attempt, all_domains, success, wi,
                  results, disk, metadata, ret, dl, tried, body, hist, before, initial, parserVars >>

\* line 49: time.sleep(2 ** attempt), then the next iteration
Sleep ==
  /\ pc = "sleep"
  /\ trace' = Append(trace, SleepEvent(Backoff(attempt)))
  /\ attempt' = attempt + 1
  /\ pc' = "get"
  /\ UNCHANGED << max_retries, sources, ci, ui, all_domains, success, wi, results, disk,
                  metadata, ret, dl, tried, body, hist, before, initial, parserVars >>

\* lines 46-51 and 86-88: the GET of the last attempt raises; the exception
\* is re-raised, download_category logs it and continues with the next URL
GetFailLast ==
  /\ pc = "get"
  /\ InRange(attempt, max_retries)
  /\ ~SleepsAfter(attempt, max_retries)
  /\ trace' = Append(trace, GetEvent(FALSE, attempt, << >>))
  /\ dl' = Reraised(attempt)
  /\ tried' = Append(tried, Tried(ui, FALSE))
  /\ ui' = ui + 1
  /\ pc' = "url"
  /\ UNCHANGED << max_retries, sources, ci, attempt, all_domains, success, wi, results,
                  disk, metadata, ret, body, hist, before, initial, parserVars >>

\* line 40 with an empty range (retries = 0): the function falls off its end
\* and returns None; process_hosts_file(None) raises AttributeError at line
\* 56, which lines 86-88 catch, and the next URL is tried
LoopEndsNone ==
  /\ pc = "get"
  /\ ~InRange(attempt, max_retries)
  /\ dl' = [kind |-> "None", text |-> << >>, err |-> 0]
  /\ trace' = trace
  /\ tried' = Append(tried, Tried(ui, FALSE))
  /\ ui' = ui + 1
  /\ pc' = "url"
  /\ UNCHANGED << max_retries, sources, ci, attempt, all_domains, success, wi, results,
                  disk, metadata, ret, body, hist, before, initial, parserVars >>

(***************************************************************************)
(* DomainUpdater.download_category: the result and the file write.         *)
(***************************************************************************)
\* line 98: the lines to write, in order
OutputLines == sorted(all_domains)

\* the file as a reader sees it once the first n lines have reached it
Flushed(n) == [exists |-> TRUE, lines |-> SubSeq(OutputLines, 1, n)]

\* line 97: open(output_file, 'w') creates the file or truncates it
Truncated == [exists |-> TRUE, lines |-> << >>]

\* a variant of lines 113-115 that gives up at the first failed category
ReturnCategoryAbort(r, wfault) ==
  /\ results' = (Cat :> r) @@ results
  /\ hist' = Append(hist, [category |-> Cat, fetched |-> success, body |-> body,
                           wfault |-> wfault, result |-> r, before |-> before,
                           after |-> disk'[Cat]])
  /\ ci' = IF r THEN ci + 1 ELSE Len(sources) + 1
  /\ pc' = "category"

\* download_category returns r to line 115, which stores it under the
\* category; wfault tells whether the write raised
ReturnCategory(r, wfault) ==
  /\ results' = (Cat :> r) @@ results
  /\ hist' = Append(hist, [category |-> Cat, fetched |-> success, body |-> body,
                           wfault |-> wfault, result |-> r, before |-> before,
                           after |-> disk'[Cat]])
  /\ ci' = ci + 1
  /\ pc' = "category"

\* lines 78 and 90-92: no URL is left and none succeeded
AllUrlsFailed ==
  /\ pc = "url"
  /\ ui > Len(Urls)
  /\ ~success
  /\ disk' = disk
  /\ ReturnCategory(FALSE, FALSE)
  /\ UNCHANGED << max_retries, sources, ui, attempt, all_domains, success, wi,
                  metadata, ret, dl, trace, tried, body, before, initial, parserVars >>

\* line 97: the file is opened for writing
OpenOk ==
  /\ pc = "open"
  /\ disk' = [disk EXCEPT ![Cat] = Truncated]
  /\ wi' = 0
  /\ pc' = "write"
  /\ UNCHANGED << max_retries, sources, ci, ui, attempt, all_domains, success, results,
                  metadata, ret, dl, trace, tried, body, hist, before, initial, parserVars >>

\* line 97 raises (the file cannot be opened); lines 103-105
OpenFail ==
  /\ pc = "open"
  /\ disk' = disk
  /\ ReturnCategory(FALSE, TRUE)
  /\ UNCHANGED << max_retries, sources, ui, attempt, all_domains, success, wi,
                  metadata, ret, dl, trace, tried, body, before, initial, parserVars >>

\* line 99: one more line is written; the buffered lines reach the file now
\* or stay in the buffer
WriteLine ==
  /\ pc = "write"
  /\ wi < Len(OutputLines)
  /\ wi' = wi + 1
  /\ \E flush \in BOOLEAN :
       disk' = IF flush THEN [disk EXCEPT ![Cat] = Flushed(wi + 1)] ELSE disk
  /\ UNCHANGED << max_retries, sources, pc, ci, ui, attempt, all_domains, success,
                  results, metadata, ret, dl, trace, tried, body, hist, before, initial, parserVars >>

\* lines 97-99 raise after the open (a write, a flush or the close fails);
\* lines 103-105
WriteFail ==
  /\ pc = "write"
  /\ disk' = disk
  /\ ReturnCategory(FALSE, TRUE)
  /\ UNCHANGED << max_retries, sources, ui, attempt, all_domains, success, wi,
                  metadata, ret, dl, trace, tried, body, before, initial, parserVars >>

\* lines 97-102: the last line is written, the file is closed
CloseOk ==
  /\ pc = "write"
  /\ wi = Len(OutputLines)
  /\ disk' = [disk EXCEPT ![Cat] = Flushed(Len(OutputLines))]
  /\ ReturnCategory(TRUE, FALSE)
  /\ UNCHANGED << max_retries, sources, ui, attempt, all_domains, success, wi,
                  metadata, ret, dl, trace, tried, body, before, initial, parserVars >>

(***************************************************************************)
(* DomainUpdater.update_all_lists: metadata and the overall result.        *)
(***************************************************************************)
\* lines 122 and 129: sum(results.values())
SuccessCount(res) == Cardinality({c \in DOMAIN res : res[c]})

\* a variant of lines 118-123 that keeps the entries of the record on disk
MetadataRecordMerged ==
  [state |-> "record", results |-> results @@ metadata.results,
   total_categories |-> Len(sources), successful_updates |-> SuccessCount(results)]

\* lines 118-123 (the timestamp is left out)
MetadataRecord ==
  [state |-> "record", results |-> results, total_categories |-> Len(sources),
   successful_updates |-> SuccessCount(results)]

\* lines 132-138
OverallResult(success_count) == IF success_count = 0 THEN "False" ELSE "True"

\* lines 117-138: after the last category, the record is written and the
\* run returns
WriteMetadata ==
  /\ pc = "category"
  /\ ci > Len(sources)
  /\ metadata' = MetadataRecord
  /\ ret' = OverallResult(SuccessCount(results))
  /\ pc' = "returned"
  /\ UNCHANGED << max_retries, sources, ci, ui, attempt, all_domains, success, wi,
                  results, disk, dl, trace, tried, body, hist, before, initial, parserVars >>

\* lines 126-127 raise: the open fails (the file is as before) or the dump
\* fails after the open truncated it; nothing catches the exception
WriteMetadataFail ==
  /\ pc = "category"
  /\ ci > Len(sources)
  /\ metadata' \in {metadata, PartialMeta}
  /\ ret' = "raise"
  /\ pc' = "raised"
  /\ UNCHANGED << max_retries, sources, ci, ui, attempt, all_domains, success, wi,
                  results, disk, dl, trace, tried, body, hist, before, initial, parserVars >>

\* main, lines 140-143: the exit status of the update invocation (an
\* uncaught exception ends the interpreter with status 1)
ExitStatus == IF ret = "True" THEN 0 ELSE 1

(***************************************************************************)
(* LogParser._load_categories                                              *)
(***************************************************************************)
\* line 67: the set read from a file's lines
LoadSet(lines) ==
  {strip(l) : l \in {x \in Range(lines) : strip(x) # << >> /\ ~startswith(x, Hash)}}

\* the category files the glob of line 63 finds
Present == {c \in DOMAIN disk : disk[c].exists}

\* lines 57-71: a LogParser is constructed and reads the category files in
\* the order the directory listing gives; a file that cannot be read is
\* logged and skipped (lines 70-71)
LoadCategories ==
  /\ \E readable \in SUBSET Present :
     \E order \in [1..Cardinality(readable) -> readable] :
       /\ \A i, j \in DOMAIN order : i # j => order[i] # order[j]
       /\ parser' = [loaded |-> TRUE,
                     categories |-> [i \in DOMAIN order |->
                        [category |-> order[i], domains |-> LoadSet(disk[order[i]].lines)]]]
  /\ UNCHANGED << updaterVars, query, category, normVars, logVars >>

Next ==
  \/ UpdateAllLists
  \/ DownloadCategory
  \/ DownloadWithRetry
  \/ GetOk
  \/ GetFailRetry
  \/ Sleep
  \/ GetFailLast
  \/ LoopEndsNone
  \/ AllUrlsFailed
  \/ OpenOk
  \/ OpenFail
  \/ WriteLine
  \/ WriteFail
  \/ CloseOk
  \/ WriteMetadata
  \/ WriteMetadataFail

\* an update run alone
Spec == Init /\ [][Next]_vars

\* an update run, and LogParsers constructed while it runs
NextLoad == Next \/ LoadCategories

SpecLoad == Init /\ [][NextLoad]_vars

TypeOK ==
  /\ pc \in {"start", "category", "url", "get", "sleep", "open", "write",
             "returned", "raised"}
  /\ ret \in {"none", "True", "False", "raise"}
  /\ attempt \in 0..MaxRetries

(***************************************************************************)
(* Claims about download_with_retry.                                       *)
(***************************************************************************)
\* the GETs of the current download_with_retry call, in order
Gets == SelectSeq(trace, LAMBDA e : e.op = "get")

\* the call has returned or raised
CallEnded == dl.kind # "pending"

\* C1: a download_with_retry call makes at most max_retries GETs; it stops at
\* the first successful GET and returns that GET's body; when all max_retries
\* GETs fail it raises the last GET's error; and it never ends without an
\* exception unless a GET succeeded.  (Stated for every max_retries >= 0.)
CE_C1_RetryContract ==
  /\ Len(Gets) <= max_retries
  /\ \A i \in 1..Len(Gets) : Gets[i].ok => i = Len(Gets) /\ CallEnded
  /\ dl.kind = "text" =>
       /\ Gets # << >>
       /\ Gets[Len(Gets)].ok
       /\ dl.text = Gets[Len(Gets)].text
  /\ dl.kind = "raise" =>
       /\ Len(Gets) = max_retries
       /\ \A i \in 1..Len(Gets) : ~Gets[i].ok
       /\ dl.err = Gets[Len(Gets)].n
  /\ (CallEnded /\ \A i \in 1..Len(Gets) : ~Gets[i].ok) =>
       dl.kind = "raise" /\ Len(Gets) = max_retries
  /\ (CallEnded /\ dl.kind # "raise") => \E i \in 1..Len(Gets) : Gets[i].ok

\* C2: in a download_with_retry call, every sleep directly follows a failed
\* GET i that is not the last allowed one and lasts 2^i seconds; every such
\* failed GET is followed by that sleep before GET i+1; nothing follows a
\* successful GET or the last allowed GET.  With max_retries = 3 and GETs
\* failing, failing, succeeding: 3 GETs, sleeps of 1 s then 2 s, and the
\* successful body is returned.
Thm_C2_Backoff ==
  /\ \A p \in 1..Len(trace) :
       trace[p].op = "sleep" =>
         /\ p > 1
         /\ trace[p - 1].op = "get"
         /\ ~trace[p - 1].ok
         /\ trace[p - 1].n < max_retries - 1
         /\ trace[p].n = 2 ^ (trace[p - 1].n)
  /\ \A p \in 1..Len(trace) :
       trace[p].op = "get" =>
         /\ trace[p].n = Cardinality({q \in 1..(p - 1) : trace[q].op = "get"})
         /\ p > 1 => trace[p - 1].op = "sleep"
         /\ (p < Len(trace)) =>
              ~trace[p].ok /\ trace[p].n < max_retries - 1 /\ trace[p + 1].op = "sleep"
         /\ (p = Len(trace) /\ ~trace[p].ok /\ trace[p].n < max_retries - 1) =>
              pc = "sleep"
  /\ CallEnded /\ trace # << >> => trace[Len(trace)].op = "get"
  /\ ( /\ max_retries = 3
       /\ CallEnded
       /\ Len(Gets) = 3
       /\ ~Gets[1].ok /\ ~Gets[2].ok /\ Gets[3].ok )
     => /\ [i \in 1..Len(trace) |-> trace[i].op] =
             << "get", "sleep", "get", "sleep", "get" >>
        /\ trace[2].n = 1
        /\ trace[4].n = 2
        /\ dl.kind = "text"
        /\ dl.text = Gets[3].text

\* C2's case: three attempts, the third succeeds
Wit_C2_FailFailOk ==
  /\ max_retries = 3
  /\ dl.kind = "text"
  /\ Len(Gets) = 3
  /\ Len(trace) = 5

(***************************************************************************)
(* Claims about download_category.                                         *)
(***************************************************************************)
\* the finished download_category calls
Finished == Range(hist)

\* the lines of the file a successful update from body t leaves
NormalizedLines == [t \in Texts |-> sorted(process_hosts_file(t))]

\* the URL list configured for category c
UrlsOf(c) == sources[CHOOSE i \in 1..Len(sources) : sources[i].category = c].urls

\* the call that has just returned to update_all_lists (tried is still its)
JustReturned == pc = "category" /\ hist # << >>
LastCall == hist[Len(hist)]

\* C3: download_category tries the category's URLs strictly in list order,
\* tries URL k+1 only after URL k failed all its attempts, and fetches no URL
\* after the first successful one; the domains it adopts and the file it
\* writes are the normalized content of that URL alone; a category whose
\* fetch succeeded and whose write did not fail is reported successful.  With
\* two URLs, the first failing every attempt and the second succeeding, the
\* file holds only the second URL's normalized domains.
Thm_C3_FirstSuccessWins ==
  /\ \A k \in 1..Len(tried) :
       /\ tried[k].url = k
       /\ k < Len(tried) => ~tried[k].ok /\ tried[k].gets = max_retries
       /\ tried[k].ok => pc \notin {"url", "get", "sleep"}
       /\ ~tried[k].ok => tried[k].gets = max_retries
  /\ pc \in {"url", "get", "sleep"} =>
       /\ ~success
       /\ all_domains = {}
       /\ Len(tried) = ui - 1
  /\ pc \in {"open", "write"} =>
       /\ success
       /\ tried[Len(tried)].ok
       /\ body = Gets[Len(Gets)].text
       /\ all_domains = Range(NormalizedLines[body])
  /\ \A h \in Finished :
       /\ h.result => h.fetched
       /\ h.result => disk[h.category] =
                        [exists |-> TRUE, lines |-> NormalizedLines[h.body]]
       /\ (h.fetched /\ ~h.wfault) => h.result /\ results[h.category]
  /\ ( /\ JustReturned
       /\ Len(tried) = 2
       /\ tried[2].ok
       /\ LastCall.result )
     => /\ LastCall.body = TextHosts =>
             disk[LastCall.category].lines = << << "a", ".", "b" >>, << "b", ".", "c" >> >>
        /\ LastCall.body = TextMixed =>
             disk[LastCall.category].lines =
               << << "A", ".", "b" >>, << "c", ".", "b", "." >> >>

\* C3's case: the first URL failed every attempt, the second succeeded and
\* the file was written
Wit_C3_SecondUrlWins ==
  /\ JustReturned
  /\ max_retries = 3
  /\ Len(tried) = 2
  /\ ~tried[1].ok /\ tried[1].gets = 3
  /\ tried[2].ok
  /\ LastCall.result
  /\ disk[LastCall.category].lines = << << "a", ".", "b" >>, << "b", ".", "c" >> >>

\* C4: when every URL of a category fails (also when it has no URL), the
\* category's result is False and the category's file is exactly as it was
\* before the call: not truncated, not rewritten, not created.
Thm_C4_FailureLeavesFile ==
  /\ pc \in {"url", "get", "sleep"} => disk[Cat] = before
  /\ \A h \in Finished :
       ~h.fetched =>
         /\ ~h.result
         /\ results[h.category] = FALSE
         /\ h.after = h.before
         /\ disk[h.category] = h.before
         /\ h.before = initial.disk[h.category]
  /\ \A h \in Finished : UrlsOf(h.category) = << >> => ~h.fetched

\* C4's case: a category with an existing file and at least one URL, all of
\* whose attempts failed
Wit_C4_AllFailed ==
  /\ JustReturned
  /\ max_retries >= 1
  /\ ~LastCall.fetched
  /\ Len(tried) >= 1
  /\ LastCall.before = OldFile
  /\ disk[LastCall.category] = OldFile

(***************************************************************************)
(* Claims about the category files as readers and failing writes see them. *)
(***************************************************************************)
\* category c's fetch has succeeded in this run
HasNew(c) ==
  \/ pc \in {"open", "write"} /\ Cat = c
  \/ \E h \in Finished : h.category = c /\ h.fetched

\* the complete new list of category c
NewLines(c) ==
  sorted(process_hosts_file(
    IF pc \in {"open", "write"} /\ Cat = c THEN body
    ELSE (CHOOSE h \in Finished : h.category = c /\ h.fetched).body))

\* C5: whenever a LogParser loads a category file while an update run may be
\* rewriting it, the set it loads is that of the complete previous file or
\* that of the complete new file, never an empty or partly written file.
CE_C5_AtomicReplace ==
  parser.loaded =>
    \A i \in 1..Len(parser.categories) :
      LET e == parser.categories[i]
          c == e.category
      IN  \/ initial.disk[c].exists /\ e.domains = LoadSet(initial.disk[c].lines)
          \/ HasNew(c) /\ e.domains = LoadSet(NewLines(c))

\* C6: when writing the category file raises (at the open or after any
\* number of lines), download_category returns False and the category's
\* file is as it was before the call.
CE_C6_WriteFailurePreserves ==
  \A h \in Finished :
    h.wfault =>
      /\ ~h.result
      /\ results[h.category] = FALSE
      /\ disk[h.category] = h.before

(***************************************************************************)
(* Claims about update_all_lists.                                          *)
(***************************************************************************)
\* the run has ended: it returned, or an exception left update_all_lists
RunEnded == pc \in {"returned", "raised"}

\* C7: an update run reports failure (returns False, exit status non-zero)
\* if and only if no category succeeded; with at least one successful
\* category it returns True (exit status 0); when every category failed it
\* returns False and the metadata record has successful_updates = 0.
CE_C7_OverallOutcome ==
  RunEnded =>
    /\ (ExitStatus # 0) <=> (SuccessCount(results) = 0)
    /\ SuccessCount(results) >= 1 => ret = "True"
    /\ SuccessCount(results) = 0 =>
         /\ ret = "False"
         /\ metadata.state = "record"
         /\ metadata.successful_updates = 0

\* C8: a failing category never aborts the run: the categories are processed
\* one after the other in configuration order, each exactly once, each with
\* exactly one boolean entry in results; a category's result is decided by
\* its own fetches and its own write, its file by its own call; no call
\* touches another category's file or entry.
Thm_C8_CategoryIndependence ==
  /\ Len(hist) <= Len(sources)
  /\ \A i \in 1..Len(hist) : hist[i].category = sources[i].category
  /\ DOMAIN results = {hist[i].category : i \in 1..Len(hist)}
  /\ pc \in {"category", "url", "get", "sleep", "open", "write"} => ci = Len(hist) + 1
  /\ pc \in {"url", "get", "sleep", "open", "write"} => ci <= Len(sources)
  /\ RunEnded => Len(hist) = Len(sources)
  /\ \A h \in Finished :
       /\ results[h.category] \in BOOLEAN
       /\ results[h.category] = h.result
       /\ h.result = (h.fetched /\ ~h.wfault)
       /\ disk[h.category] = h.after
       /\ h.before = initial.disk[h.category]
       /\ ~h.fetched => h.after = h.before
       /\ h.result => h.after.lines = NormalizedLines[h.body]
  /\ \A c \in DOMAIN disk :
       (/\ \A h \in Finished : h.category # c
        /\ ~(pc \in {"open", "write"} /\ Cat = c))
       => disk[c] = initial.disk[c]

\* C8's case: the first category failed, the second was still processed and
\* succeeded
Wit_C8_FailThenSucceed ==
  /\ RunEnded
  /\ Len(hist) = 2
  /\ ~hist[1].result
  /\ hist[2].result
  /\ disk[hist[1].category] = initial.disk[hist[1].category]

\* C9: the metadata file is not touched before the last category has been
\* processed; a run that returns has written a record whose results map has
\* exactly the configured categories as keys (nothing of the previous
\* record is kept), whose total_categories is the number of configured
\* categories and whose successful_updates is the number of true results.
Thm_C9_MetadataRecord ==
  /\ ~RunEnded => metadata = initial.metadata
  /\ RunEnded => Len(hist) = Len(sources)
  /\ pc = "returned" =>
       /\ metadata.state = "record"
       /\ DOMAIN metadata.results = Categories
       /\ \A c \in Categories :
            /\ metadata.results[c] \in BOOLEAN
            /\ \E h \in Finished : h.category = c /\ h.result = metadata.results[c]
       /\ metadata.total_categories = Cardinality(Categories)
       /\ metadata.successful_updates =
            Cardinality({h \in Finished : h.result})
       /\ 0 <= metadata.successful_updates
       /\ metadata.successful_updates <= metadata.total_categories

\* C9's case: a run over two categories, one of which succeeded, replaced
\* the record of an earlier run
Wit_C9_RecordReplaced ==
  /\ pc = "returned"
  /\ initial.metadata = OldMeta
  /\ Len(sources) = 2
  /\ metadata.successful_updates = 1
  /\ metadata.total_categories = 2

(***************************************************************************)
(* LogParser.categorize_domain, applied to drawn category sets.            *)
(***************************************************************************)
\* a variant of line 84 that leaves out the separating dot
SuffixMatchNoDot(domain, cat_domain) ==
  endswith(domain, cat_domain) \/ domain = cat_domain

\* line 84
SuffixMatch(domain, cat_domain) ==
  endswith(domain, Dot \o cat_domain) \/ domain = cat_domain

\* a variant of lines 77-87 that looks for an exact match in every category
\* before it looks for a suffix match
CategorizeExactFirst(cats, domain, i) ==
  LET exact == {k \in i..Len(cats) : domain \in cats[k].domains}
      suffix == {k \in i..Len(cats) :
                   \E cat_domain \in cats[k].domains : SuffixMatch(domain, cat_domain)}
      Least(S) == CHOOSE k \in S : \A j \in S : k <= j
  IN  IF exact # {} THEN cats[Least(exact)].category
      ELSE IF suffix # {} THEN cats[Least(suffix)].category
      ELSE "uncategorized"

\* lines 77-87: the loop over self.categories from entry i on
RECURSIVE CategorizeFrom(_, _, _)
CategorizeFrom(cats, domain, i) ==
  IF i > Len(cats) THEN "uncategorized"
  ELSE IF domain \in cats[i].domains THEN cats[i].category
  ELSE IF \E cat_domain \in cats[i].domains : SuffixMatch(domain, cat_domain)
       THEN cats[i].category
  ELSE CategorizeFrom(cats, domain, i + 1)

\* lines 73-87
categorize_domain(cats, domain) == CategorizeFrom(cats, strip(lower(domain)), 1)

\* domains a category file may hold: a.b, its parent b, and A.b as a source
\* list spelled it
StoredPool == { << "a", ".", "b" >>, << "b" >>, << "A", ".", "b" >> }

Sub == << "s", "u", "b", "." >>

\* the domains passed to categorize_domain
Queries ==
  { << "a", ".", "b" >>,
    Sub \o << "a", ".", "b" >>,
    << "A", ".", "b" >>,
    << "x", "a", ".", "b" >>,
    << "c", ".", "c" >>,
    << " ", "a", ".", "b" >>,
    Sub \o << "b" >>,
    << "b" >> }

\* the categories a LogParser may have loaded: up to MaxCats files, in any
\* listing order, each with any set of stored domains
LoadedCategories ==
  LET names == {CatNames[i] : i \in 1..MaxCats}
      orders == {q \in UNION {[1..n -> names] : n \in 0..MaxCats} :
                   \A i, j \in DOMAIN q : i # j => q[i] # q[j]}
  IN  UNION {{[i \in DOMAIN q |-> [category |-> q[i], domains |-> f[i]]] :
                f \in [DOMAIN q -> SUBSET StoredPool]} : q \in orders}

\* a constructed LogParser, no update run
InitCat ==
  /\ max_retries = MaxRetries
  /\ sources = << >>
  /\ disk = [c \in {CatNames[i] : i \in 1..MaxCats} |-> NoFile]
  /\ metadata = NoMeta
  /\ initial = [disk |-> disk, metadata |-> metadata]
  /\ Idle
  /\ \E cats \in LoadedCategories : parser = [loaded |-> TRUE, categories |-> cats]
  /\ query = << >>
  /\ category = ""
  /\ NormIdle
  /\ LogIdle

\* categorize_domain is called with domain d
CategorizeDomain ==
  /\ parser.loaded
  /\ \E d \in Queries :
       /\ query' = d
       /\ category' = categorize_domain(parser.categories, d)
  /\ UNCHANGED << updaterVars, parser, normVars, logVars >>

NextCat == CategorizeDomain

SpecCat == InitCat /\ [][NextCat]_vars

\* the parent domains of d: what follows each of its dots
ParentDomains(d) == {SubSeq(d, p + 1, Len(d)) : p \in {q \in 1..Len(d) : d[q] = "."}}

\* categorize_domain has been called
Categorized == category # ""

\* C10 as stated: if the domain is an exact member of a category's set, or
\* "sub." + x for a member x, the result is that category; if no category
\* contains the domain or one of its parent domains, the result is
\* "uncategorized".
CE_C10_Classification ==
  Categorized =>
    /\ \A i \in 1..Len(parser.categories) :
         LET C == parser.categories[i]
         IN  /\ query \in C.domains => category = C.category
             /\ (\E x \in C.domains : query = Sub \o x) => category = C.category
    /\ (\A i \in 1..Len(parser.categories) :
          /\ query \notin parser.categories[i].domains
          /\ ParentDomains(query) \cap parser.categories[i].domains = {})
       => category = "uncategorized"

\* C10 amended: with d the lowercased, trimmed input, if d is an exact member
\* of category C's set or d = "sub." + x for a member x, and no category
\* loaded before C contains d or a parent domain of d, the result is C; if
\* no category contains d or one of its parent domains, the result is
\* "uncategorized".
Thm_C10_ClassificationFirstMatch ==
  Categorized =>
    LET d == strip(lower(query))
        Hit(i) == \/ d \in parser.categories[i].domains
                  \/ ParentDomains(d) \cap parser.categories[i].domains # {}
    IN  /\ \A i \in 1..Len(parser.categories) :
             LET C == parser.categories[i]
             IN  ( /\ d \in C.domains \/ \E x \in C.domains : d = Sub \o x
                   /\ \A j \in 1..(i - 1) : ~Hit(j) )
                 => category = C.category
        /\ (\A i \in 1..Len(parser.categories) : ~Hit(i)) => category = "uncategorized"

\* C10's case: the first category does not match, the second holds the
\* parent domain of "sub.a.b"
Wit_C10_SubdomainOfSecond ==
  /\ Categorized
  /\ Len(parser.categories) = 2
  /\ query = Sub \o << "a", ".", "b" >>
  /\ parser.categories[1].domains = { << "A", ".", "b" >> }
  /\ << "a", ".", "b" >> \in parser.categories[2].domains
  /\ category = parser.categories[2].category

\* d is x, or ends with "." followed by x
DotSuffixOrEqual(d, x) ==
  \/ d = x
  \/ /\ Len(d) > Len(x)
     /\ d[Len(d) - Len(x)] = "."
     /\ \A i \in 1..Len(x) : d[Len(d) - Len(x) + i] = x[i]

\* the loaded categories, by position, that match d
Matching(d) ==
  {i \in 1..Len(parser.categories) :
     \E x \in parser.categories[i].domains : DotSuffixOrEqual(d, x)}

\* C15: categorize_domain lowercases and trims its input and returns the
\* first category, in load order, whose set holds the input or a domain x
\* with the input ending in "." + x; a later category is never returned when
\* an earlier one matches, also when the later match is exact and the
\* earlier one a suffix match; a name that ends with x without the dot does
\* not match; the result is determined by the input and the ordered
\* category sets (when nothing matches it is "uncategorized").
Thm_C15_FirstMatchWins ==
  Categorized =>
    LET d == strip(lower(query))
        M == Matching(d)
        cats == parser.categories
    IN  /\ M # {} => \E i \in M : (\A j \in M : i <= j) /\ category = cats[i].category
        /\ M = {} => category = "uncategorized"
        /\ \A i, j \in 1..Len(cats) :
             (i < j /\ i \in M /\ d \notin cats[i].domains /\ d \in cats[j].domains)
             => category # cats[j].category
        /\ \A i \in 1..Len(cats) :
             ( /\ \E x \in cats[i].domains : endswith(d, x)
               /\ i \notin M )
             => category # cats[i].category

\* C15's case: "a.b" is a member of the second category and a subdomain of
\* "b" in the first; the first is returned
Wit_C15_SuffixBeforeExact ==
  /\ Categorized
  /\ Len(parser.categories) = 2
  /\ query = << "A", ".", "b" >>
  /\ parser.categories[1].domains = { << "b" >> }
  /\ << "a", ".", "b" >> \in parser.categories[2].domains
  /\ category = parser.categories[1].category

(***************************************************************************)
(* Claims about the stored domain strings.                                 *)
(***************************************************************************)
\* d is lowercase, has no trailing dot and no leading or trailing white space
CleanDomain(d) ==
  /\ d = lower(d)
  /\ d # << >> => d[Len(d)] # "."
  /\ d = strip(d)

\* C16: after any sequence of update runs and category loads, every domain
\* in a category file and in the in-memory category sets is lowercase, has
\* no trailing dot and no leading or trailing white space, whatever the
\* fetched lists hold.
CE_C16_StoredDomainsClean ==
  /\ \A c \in DOMAIN disk : \A l \in Range(disk[c].lines) : CleanDomain(l)
  /\ \A i \in 1..Len(parser.categories) :
       \A d \in parser.categories[i].domains : CleanDomain(d)

(***************************************************************************)
(* DomainUpdater.process_hosts_file applied to drawn texts.                *)
(***************************************************************************)
\* "0.0.0.0 ads.example.com"
LineAds ==
  << "0", ".", "0", ".", "0", ".", "0", " ", "a", "d", "s", ".", "e", "x",
     "a", "m", "p", "l", "e", ".", "c", "o", "m" >>

\* "ads.example.com"
DomainAds ==
  << "a", "d", "s", ".", "e", "x", "a", "m", "p", "l", "e", ".", "c", "o",
     "m" >>

\* "0.0.0.0 localhost"
LineSinkLocalhost ==
  << "0", ".", "0", ".", "0", ".", "0", " ", "l", "o", "c", "a", "l", "h",
     "o", "s", "t" >>

\* "# comment"
LineComment ==
  << "#", " ", "c", "o", "m", "m", "e", "n", "t" >>

\* "tracker.example"
LineTracker ==
  << "t", "r", "a", "c", "k", "e", "r", ".", "e", "x", "a", "m", "p", "l",
     "e" >>

\* " #c": a comment after leading space
LineIndentedComment ==
  << " ", "#", "c" >>

\* "127.0.0.1<tab>a.b  x": three tokens, tab and double space
LineLoopThree ==
  << "1", "2", "7", ".", "0", ".", "0", ".", "1", "\t", "a", ".", "b", " ",
     " ", "x" >>

\* "0.0.0.0": the sink address alone
LineSinkAlone ==
  << "0", ".", "0", ".", "0", ".", "0" >>

\* " A.b ": a bare upper-case domain with surrounding spaces
LineUpper ==
  << " ", "A", ".", "b", " " >>

\* "a.b x": two tokens, the first not a sink address
LineTwoWords ==
  << "a", ".", "b", " ", "x" >>

\* "127.0.0.1 localhost "
LineLoopLocalhost ==
  << "1", "2", "7", ".", "0", ".", "0", ".", "1", " ", "l", "o", "c", "a",
     "l", "h", "o", "s", "t", " " >>

\* the lines a source list may hold ("" is a blank line)
LinePool ==
  { << >>, LineAds, LineSinkLocalhost, LineComment, LineTracker, LineIndentedComment,
    LineLoopThree, LineSinkAlone, LineUpper, LineTwoWords, LineLoopLocalhost }

\* the text of a sequence of lines, each ended by a newline
RECURSIVE JoinLines(_)
JoinLines(ls) == IF ls = << >> THEN << >> ELSE Head(ls) \o NL \o JoinLines(Tail(ls))

\* the texts passed to process_hosts_file: up to MaxLines lines of LinePool
NormTexts == {JoinLines(ls) : ls \in UNION {[1..n -> LinePool] : n \in 0..MaxLines}}

\* no update run, no LogParser; a text to normalize
InitNorm ==
  /\ max_retries = MaxRetries
  /\ sources = << >>
  /\ disk = [c \in {CatNames[i] : i \in 1..MaxCats} |-> NoFile]
  /\ metadata = NoMeta
  /\ initial = [disk |-> disk, metadata |-> metadata]
  /\ Idle
  /\ parser = [loaded |-> FALSE, categories |-> << >>]
  /\ query = << >>
  /\ category = ""
  /\ content \in NormTexts
  /\ domains = {}
  /\ normalized = FALSE
  /\ LogIdle

\* lines 53-71: process_hosts_file(content) is called
ProcessHostsFile ==
  /\ ~normalized
  /\ domains' = process_hosts_file(content)
  /\ normalized' = TRUE
  /\ UNCHANGED << updaterVars, parser, query, category, content, logVars >>

NextNorm == ProcessHostsFile

\* process_hosts_file applied to a text
SpecNorm == InitNorm /\ [][NextNorm]_vars

(***************************************************************************)
(* Claims about process_hosts_file.                                        *)
(***************************************************************************)
\* the lines of text t: the pieces between its newlines
LineBreaks(t) == {0, Len(t) + 1} \cup {i \in 1..Len(t) : t[i] = "\n"}
LinesOf(t) ==
  {SubSeq(t, p + 1, q - 1) :
     << p, q >> \in {pq \in LineBreaks(t) \X LineBreaks(t) :
                      /\ pq[1] < pq[2]
                      /\ \A r \in LineBreaks(t) : ~(pq[1] < r /\ r < pq[2])}}

\* the positions of line l that hold no white space
Inked(l) == {i \in 1..Len(l) : l[i] \notin {" ", "\t", "\n"}}
First(S) == CHOOSE i \in S : \A j \in S : i <= j
Last(S) == CHOOSE i \in S : \A j \in S : i >= j

\* line l without its leading and trailing white space
Trimmed(l) == IF Inked(l) = {} THEN << >> ELSE SubSeq(l, First(Inked(l)), Last(Inked(l)))

\* the white-space-separated tokens of line l, as the intervals they occupy
TokenSpans(l) ==
  {ab \in (1..Len(l)) \X (1..Len(l)) :
     /\ ab[1] <= ab[2]
     /\ \A i \in ab[1]..ab[2] : i \in Inked(l)
     /\ (ab[1] - 1) \notin Inked(l)
     /\ (ab[2] + 1) \notin Inked(l)}

\* the k-th token of line l, from the left
Token(l, k) ==
  LET span == CHOOSE ab \in TokenSpans(l) :
                Cardinality({cd \in TokenSpans(l) : cd[1] < ab[1]}) = k - 1
  IN  SubSeq(l, span[1], span[2])

\* what the claim says line l contributes
Contribution(l) ==
  IF Inked(l) = {} \/ l[First(Inked(l))] = "#" THEN {}
  ELSE IF Cardinality(TokenSpans(l)) >= 2 /\ Token(l, 1) \in {SinkZero, SinkLoop}
       THEN (IF Token(l, 2) = Localhost THEN {} ELSE {Token(l, 2)})
  ELSE {Trimmed(l)}

\* C14: for every text, process_hosts_file returns exactly the set the rule
\* gives: blank lines and lines whose first non-space character is '#' give
\* nothing; a line of at least 2 tokens whose first is 0.0.0.0 or 127.0.0.1
\* gives its second token unless that is localhost; every other line gives
\* the whole trimmed line verbatim, not lowercased; duplicates collapse.
\* "0.0.0.0 ads.example.com" gives ads.example.com, "0.0.0.0 localhost" and
\* "# comment" give nothing, "tracker.example" gives tracker.example.
Thm_C14_Normalize ==
  normalized =>
    /\ domains = UNION {Contribution(l) : l \in LinesOf(content)}
    /\ \A d \in domains :
         \E i \in 1..Len(content) : SubSeq(content, i, i + Len(d) - 1) = d
    /\ Cardinality(domains) <= Cardinality(LinesOf(content))
    /\ content = LineAds \o NL => domains = {DomainAds}
    /\ content = LineSinkLocalhost \o NL => domains = {}
    /\ content = LineComment \o NL => domains = {}
    /\ content = LineTracker \o NL => domains = {LineTracker}
    /\ content = LineAds \o NL \o LineAds \o NL => domains = {DomainAds}

\* C14's case: a blocklist line and a bare upper-case line with surrounding
\* spaces were normalized to the second token and the trimmed line as written
Wit_C14_SinkAndBare ==
  /\ normalized
  /\ content = LineAds \o NL \o LineUpper \o NL
  /\ domains = {DomainAds, << "A", ".", "b" >>}

(***************************************************************************)
(* LogParser.parse_logs and generate_summary over the Pi-hole query store. *)
(***************************************************************************)
\* seconds in a day: timedelta(days=1)
Day == 86400

\* the instants the clock passes through: the last second of a day, the
\* midnight after it, the next midnight and the second after that
Instants == << Day - 1, Day, 2 * Day, 2 * Day + 1 >>

\* "192.168.1.12", the client DEFAULT_DEVICE_MAP names "TV", and a client it
\* does not name
ClientTV == << "1", "9", "2", ".", "1", "6", "8", ".", "1", ".", "1", "2" >>
ClientOther == << "1", "0", ".", "0", ".", "0", ".", "2" >>
DeviceTV == << "T", "V" >>

\* self.device_map
device_map == (ClientTV :> DeviceTV)

\* the status codes the store may hold: Unknown, blocked (gravity), allowed,
\* and a code status_map does not list
StatusCodes == << 0, 1, 2, 6 >>

\* line 141-143
status_map ==
  (0 :> "Unknown") @@ (1 :> "Blocked (gravity)") @@ (2 :> "Allowed")
    @@ (3 :> "Blocked (regex)") @@ (4 :> "Blocked (exact)") @@ (5 :> "Blocked (CNAME)")
    @@ (9 :> "Blocked (gravity, CNAME)") @@ (10 :> "Blocked (regex, CNAME)")
    @@ (11 :> "Blocked (exact, CNAME)")

\* the device filters passed to parse_logs: none, "tv", and "(" which is not
\* a regular expression
FilterTv == << "t", "v" >>
FilterBad == << "(" >>
Filters == { << >>, FilterTv, FilterBad }

\* re.compile accepts the pattern (of the patterns of Filters)
ValidPattern(p) == "(" \notin Range(p)

\* Series.str.contains(p, case=False) for a pattern of literal characters
contains(s, p) ==
  \E i \in 0..(Len(s) - Len(p)) : SubSeq(lower(s), i + 1, i + Len(p)) = lower(p)

\* DataFrame.empty: no rows or no columns
Empty(f) == f.rows = << >> \/ f.columns = {}

\* the columns the query of lines 118-123 selects
QueryColumns == {"client", "domain", "timestamp", "status"}

\* the columns lines 134-144 add
AddedColumns == {"Time", "Device", "Category", "Hour", "Date", "Status_Description"}

\* lines 114-116 and 127: midnight of the day (t - d days), as an integer
\* timestamp (days are counted from the epoch, in the zone of the clock)
StartOfDay(t, d) == ((t - d * Day) \div Day) * Day

\* lines 119-122: the rows with timestamp >= start, as [rowid, client, domain,
\* timestamp, status]
Selected(rows, start) == {i \in 1..Len(rows) : rows[i].timestamp >= start}

\* ORDER BY timestamp DESC: an order of the selected rows by descending
\* timestamp (rows of equal timestamp in any order)
Descending(rows, order) ==
  \A i, j \in DOMAIN order : i < j => rows[order[i]].timestamp >= rows[order[j]].timestamp

\* the orders line 127 may deliver the selected rows in
Orders(rows, sel) ==
  {order \in [1..Cardinality(sel) -> sel] :
     /\ \A i, j \in DOMAIN order : i # j => order[i] # order[j]
     /\ Descending(rows, order)}

\* the DataFrame pd.read_sql returns for one order
ReadFrame(rows, order) ==
  [columns |-> QueryColumns,
   rows |-> [k \in DOMAIN order |->
               [rowid |-> order[k], client |-> rows[order[k]].client,
                domain |-> rows[order[k]].domain,
                timestamp |-> rows[order[k]].timestamp,
                status |-> rows[order[k]].status]]]

\* lines 134-144 for one row
ProcessRow(cats, r) ==
  [rowid |-> r.rowid, client |-> r.client, domain |-> r.domain,
   timestamp |-> r.timestamp, status |-> r.status,
   Time |-> r.timestamp,
   Device |-> IF r.client \in DOMAIN device_map THEN device_map[r.client] ELSE r.client,
   Category |-> categorize_domain(cats, r.domain),
   Hour |-> (r.timestamp % Day) \div 3600,
   Date |-> r.timestamp \div Day,
   Status_Description |->
     IF r.status \in DOMAIN status_map THEN status_map[r.status] ELSE "Unknown"]

\* lines 134-151: the processed frame, filtered by device when a filter is
\* given (line 147: None and "" are no filter)
Processed(cats, f, filter) ==
  LET rows == [k \in DOMAIN f.rows |-> ProcessRow(cats, f.rows[k])]
  IN  [columns |-> f.columns \cup AddedColumns,
       rows |-> IF filter = << >> THEN rows
                ELSE SelectSeq(rows, LAMBDA r : contains(r.Device, filter))]

\* Series.value_counts().to_dict() of a column, given as its values by row
value_counts(col) ==
  [v \in Range(col) |-> Cardinality({i \in DOMAIN col : col[i] = v})]

\* .head(n) of a value_counts: the n most frequent values
head(vc, n) ==
  IF Cardinality(DOMAIN vc) <= n THEN vc
  ELSE LET top == CHOOSE S \in SUBSET DOMAIN vc :
                    /\ Cardinality(S) = n
                    /\ \A x \in S, y \in (DOMAIN vc) \ S : vc[x] >= vc[y]
       IN  [v \in top |-> vc[v]]

\* a variant of line 173 that does not count status 0 (Unknown) as blocked
IsBlockedKnown(status) == status \notin {0, 2}

\* lines 173-174: df['status'] != 2
IsBlocked(status) == status # 2

\* a / b * 100 as the fraction it denotes
Percentage(a, b) == [num |-> a * 100, den |-> b]

\* Series.min() and Series.max() of the Time column
MinTime(rows) == CHOOSE t \in {rows[i].Time : i \in DOMAIN rows} :
                   \A i \in DOMAIN rows : t <= rows[i].Time
MaxTime(rows) == CHOOSE t \in {rows[i].Time : i \in DOMAIN rows} :
                   \A i \in DOMAIN rows : t >= rows[i].Time

\* lines 162-175
SummaryOf(f) ==
  LET blocked == SelectSeq(f.rows, LAMBDA r : IsBlocked(r.status))
      ColDomain == [i \in DOMAIN f.rows |-> f.rows[i].domain]
      ColDevice == [i \in DOMAIN f.rows |-> f.rows[i].Device]
      ColCategory == [i \in DOMAIN f.rows |-> f.rows[i].Category]
  IN  [total_queries |-> Len(f.rows),
       unique_domains |-> Cardinality({f.rows[i].domain : i \in DOMAIN f.rows}),
       unique_devices |-> Cardinality({f.rows[i].Device : i \in DOMAIN f.rows}),
       date_range |-> [start |-> MinTime(f.rows), end |-> MaxTime(f.rows)],
       top_categories |-> head(value_counts(ColCategory), 10),
       top_domains |-> head(value_counts(ColDomain), 10),
       device_activity |-> value_counts(ColDevice),
       blocked_queries |-> Len(blocked),
       blocked_percentage |->
         IF Len(f.rows) > 0 THEN Percentage(Len(blocked), Len(f.rows))
         ELSE Percentage(0, 1)]

\* a variant of lines 159-160 that summarizes an empty frame too
generate_summary_unguarded(f) ==
  [total_queries |-> Len(f.rows), blocked_queries |-> 0,
   blocked_percentage |-> Percentage(0, 1)]

\* lines 157-177: an empty frame gives the empty dict
generate_summary(f) == IF Empty(f) THEN << >> ELSE SummaryOf(f)

\* dict.get(key, default), as the dashboard reads the summary
Get(d, key, default) == IF key \in DOMAIN d THEN d[key] ELSE default

\* Pi-hole records a query: a row stamped with the current time
InsertQuery ==
  /\ lpc \in {"idle", "check", "window", "read"}
  /\ db.exists /\ db.table
  /\ Len(db.rows) < MaxRows
  /\ \E c \in {ClientTV, ClientOther}, st \in {1, 2} :
       db' = [db EXCEPT !.rows = Append(@,
                [client |-> c, domain |-> << "a", ".", "b" >>, timestamp |-> clock,
                 status |-> st])]
  /\ UNCHANGED << updaterVars, parser, query, category, normVars, clock, lpc, days,
                  device_filter, now, start_time, df, summary, seen, fault >>

\* time passes
Tick ==
  /\ lpc \in {"idle", "check", "window", "read"}
  /\ \E k \in 1..(Len(Instants) - 1) :
       /\ clock = Instants[k]
       /\ clock' = Instants[k + 1]
  /\ UNCHANGED << updaterVars, parser, query, category, normVars, db, lpc, days,
                  device_filter, now, start_time, df, summary, seen, fault >>

\* line 109: parse_logs(days, device_filter) is called
ParseLogs ==
  /\ lpc = "idle"
  /\ days' \in 0..MaxDays
  /\ device_filter' \in Filters
  /\ lpc' = "check"
  /\ UNCHANGED << updaterVars, parser, query, category, normVars, clock, db, now,
                  start_time, df, summary, seen, fault >>

\* what the rest of a parse_logs step leaves alone
LogFrame ==
  UNCHANGED << updaterVars, parser, query, category, normVars, clock, db, days,
               device_filter, summary >>

\* lines 92-94 and 111-112: the database file is missing
CheckDbMissing ==
  /\ lpc = "check"
  /\ ~db.exists
  /\ df' = EmptyFrame
  /\ fault' = "missing"
  /\ lpc' = "returned"
  /\ UNCHANGED << now, start_time, seen >>
  /\ LogFrame

\* lines 96-101 and 111-112: the file has no queries table
CheckDbNoTable ==
  /\ lpc = "check"
  /\ db.exists /\ ~db.table
  /\ df' = EmptyFrame
  /\ fault' = "no table"
  /\ lpc' = "returned"
  /\ UNCHANGED << now, start_time, seen >>
  /\ LogFrame

\* lines 105-107 and 111-112: connecting or querying sqlite_master raises
CheckDbFail ==
  /\ lpc = "check"
  /\ db.exists
  /\ df' = EmptyFrame
  /\ fault' = "check raised"
  /\ lpc' = "returned"
  /\ UNCHANGED << now, start_time, seen >>
  /\ LogFrame

\* lines 96-104: the queries table is there
CheckDbOk ==
  /\ lpc = "check"
  /\ db.exists /\ db.table
  /\ lpc' = "window"
  /\ UNCHANGED << now, start_time, df, seen, fault >>
  /\ LogFrame

\* lines 114-116: start_time is midnight of the day (now - days)
StartTime ==
  /\ lpc = "window"
  /\ now' = clock
  /\ start_time' = StartOfDay(clock, days)
  /\ lpc' = "read"
  /\ UNCHANGED << df, seen, fault >>
  /\ LogFrame

\* lines 126-131: the rows are read; an empty result is returned as it is
ReadSql ==
  /\ lpc = "read"
  /\ seen' = db.rows
  /\ \E order \in Orders(db.rows, Selected(db.rows, start_time)) :
       df' = ReadFrame(db.rows, order)
  /\ lpc' = IF Empty(df') THEN "returned" ELSE "process"
  /\ UNCHANGED << now, start_time, fault >>
  /\ LogFrame

\* lines 126-127 raise (the store is locked, unreadable or gone): lines
\* 153-155 return an empty DataFrame
ReadSqlFail ==
  /\ lpc = "read"
  /\ df' = EmptyFrame
  /\ fault' = "read raised"
  /\ lpc' = "returned"
  /\ UNCHANGED << now, start_time, seen >>
  /\ LogFrame

\* lines 134-151: the columns are added and the device filter is applied; a
\* filter that is not a regular expression raises at line 148 and lines
\* 153-155 return an empty DataFrame
ProcessFrame ==
  /\ lpc = "process"
  /\ IF device_filter # << >> /\ ~ValidPattern(device_filter)
     THEN df' = EmptyFrame /\ fault' = "filter raised"
     ELSE df' = Processed(parser.categories, df, device_filter) /\ fault' = fault
  /\ lpc' = "returned"
  /\ UNCHANGED << now, start_time, seen >>
  /\ LogFrame

\* lines 157-177: generate_summary is called with what parse_logs returned
GenerateSummary ==
  /\ lpc = "returned"
  /\ summary' = generate_summary(df)
  /\ lpc' = "summarized"
  /\ UNCHANGED << updaterVars, parser, query, category, normVars, clock, db, days,
                  device_filter, now, start_time, df, seen, fault >>

\* the categories of the LogParser whose parse_logs is followed
LogCategories == << [category |-> "social", domains |-> { << "a", ".", "b" >> }] >>

\* a constructed LogParser and a query store (missing, without its table,
\* or empty), no update run
InitLog ==
  /\ max_retries = MaxRetries
  /\ sources = << >>
  /\ disk = [c \in {CatNames[i] : i \in 1..MaxCats} |-> NoFile]
  /\ metadata = NoMeta
  /\ initial = [disk |-> disk, metadata |-> metadata]
  /\ Idle
  /\ parser = [loaded |-> TRUE, categories |-> LogCategories]
  /\ query = << >>
  /\ category = ""
  /\ NormIdle
  /\ clock = Instants[1]
  /\ \E e, t \in BOOLEAN :
       /\ t => e
       /\ db = [exists |-> e, table |-> t, rows |-> << >>]
  /\ lpc = "idle"
  /\ days = 0
  /\ device_filter = << >>
  /\ now = 0
  /\ start_time = 0
  /\ df = EmptyFrame
  /\ summary = << >>
  /\ seen = << >>
  /\ fault = "none"

NextLog ==
  \/ InsertQuery
  \/ Tick
  \/ ParseLogs
  \/ CheckDbMissing
  \/ CheckDbNoTable
  \/ CheckDbFail
  \/ CheckDbOk
  \/ StartTime
  \/ ReadSql
  \/ ReadSqlFail
  \/ ProcessFrame
  \/ GenerateSummary

\* a parse_logs call followed by generate_summary, while Pi-hole records
\* queries
SpecLog == InitLog /\ [][NextLog]_vars

\* a batch of classified records with counts[k] records of status
\* StatusCodes[k], all of one client, one domain and one second
Batch(counts) ==
  LET Upto(k) == Sum([j \in 1..k |-> counts[j]])
      StatusAt(i) == StatusCodes[CHOOSE k \in DOMAIN counts : Upto(k - 1) < i /\ i <= Upto(k)]
      raw == [columns |-> QueryColumns,
              rows |-> [i \in 1..Sum(counts) |->
                          [rowid |-> i, client |-> ClientTV, domain |-> << "a", ".", "b" >>,
                           timestamp |-> Day, status |-> StatusAt(i)]]]
  IN  Processed(LogCategories, raw, << >>)

\* the batches passed to generate_summary: up to MaxBatch records
Batches ==
  {Batch(counts) : counts \in {c \in [DOMAIN StatusCodes -> 0..MaxBatch] : Sum(c) <= MaxBatch}}

\* parse_logs has returned a batch
InitSummary ==
  /\ max_retries = MaxRetries
  /\ sources = << >>
  /\ disk = [c \in {CatNames[i] : i \in 1..MaxCats} |-> NoFile]
  /\ metadata = NoMeta
  /\ initial = [disk |-> disk, metadata |-> metadata]
  /\ Idle
  /\ parser = [loaded |-> TRUE, categories |-> LogCategories]
  /\ query = << >>
  /\ category = ""
  /\ NormIdle
  /\ clock = Instants[Len(Instants)]
  /\ db = [exists |-> TRUE, table |-> TRUE, rows |-> << >>]
  /\ lpc = "returned"
  /\ days = 0
  /\ device_filter = << >>
  /\ now = clock
  /\ start_time = StartOfDay(now, days)
  /\ df \in Batches
  /\ summary = << >>
  /\ seen = << >>
  /\ fault = "none"

NextSummary == GenerateSummary

\* generate_summary applied to a batch
SpecSummary == InitSummary /\ [][NextSummary]_vars

(***************************************************************************)
(* Claims about generate_summary and parse_logs.                           *)
(***************************************************************************)
\* generate_summary has returned
Summarized == lpc = "summarized"

\* C11: for every non-empty batch, blocked_queries is the number of records
\* whose status is not 2 (status 0 and codes status_map does not list count
\* as blocked), blocked_percentage is blocked_queries / total_queries * 100,
\* and 0 <= blocked_queries <= total_queries; 10 records of which 7 have a
\* status other than 2 give blocked_queries = 7 and blocked_percentage = 70.
Thm_C11_BlockedStatistics ==
  (Summarized /\ df.rows # << >>) =>
    LET n == Len(df.rows)
        notAllowed == {i \in 1..n : df.rows[i].status # 2}
        allowed == {i \in 1..n : df.rows[i].status = 2}
    IN  /\ summary.total_queries = n
        /\ summary.blocked_queries = Cardinality(notAllowed)
        /\ summary.blocked_queries = n - Cardinality(allowed)
        /\ \A i \in 1..n : df.rows[i].status \in {0, 6} => i \in notAllowed
        /\ summary.blocked_percentage.num * summary.total_queries =
             summary.blocked_queries * 100 * summary.blocked_percentage.den
        /\ summary.blocked_percentage.den > 0
        /\ 0 <= summary.blocked_queries
        /\ summary.blocked_queries <= summary.total_queries
        /\ (n = 10 /\ Cardinality(notAllowed) = 7) =>
             /\ summary.blocked_queries = 7
             /\ summary.blocked_percentage.num = 70 * summary.blocked_percentage.den

\* C11's case: 10 records, 3 allowed, the other 7 of status 0, 1 and 6
Wit_C11_SevenOfTen ==
  /\ Summarized
  /\ Len(df.rows) = 10
  /\ Cardinality({i \in 1..10 : df.rows[i].status = 2}) = 3
  /\ \E i, j, k \in 1..10 :
       df.rows[i].status = 0 /\ df.rows[j].status = 1 /\ df.rows[k].status = 6
  /\ summary.blocked_queries = 7

\* parse_logs has returned
Returned == lpc \in {"returned", "summarized"}

\* the rows line 127 saw that lie in the window and pass the device filter
InWindow ==
  {i \in 1..Len(seen) :
     /\ seen[i].timestamp >= start_time
     /\ \/ device_filter = << >>
        \/ contains(IF seen[i].client \in DOMAIN device_map THEN device_map[seen[i].client]
                    ELSE seen[i].client, device_filter)}

\* the store was missing, had no queries table, failed while it was checked
\* or read, or the window, after the device filter, held no record
NothingToAggregate ==
  /\ Returned
  /\ \/ fault \in {"missing", "no table", "check raised", "read raised"}
     \/ fault = "none" /\ InWindow = {}

ReadDone ==
  \/ lpc = "process"
  \/ lpc = "returned" /\ fault = "none" /\ df.columns = QueryColumns

\* C13: with windowStart the midnight of the day (now - days), the batch
\* that is classified holds exactly the stored records with
\* windowStart <= timestamp <= now (none older than windowStart, none later
\* than now), in descending order of timestamp.
CE_C13_Window ==
  ReadDone =>
    /\ start_time % Day = 0
    /\ start_time <= now - days * Day
    /\ now - days * Day < start_time + Day
    /\ {df.rows[k].rowid : k \in DOMAIN df.rows} =
         {i \in 1..Len(seen) : start_time <= seen[i].timestamp /\ seen[i].timestamp <= now}
    /\ \A k \in DOMAIN df.rows :
         /\ df.rows[k].timestamp = seen[df.rows[k].rowid].timestamp
         /\ start_time <= df.rows[k].timestamp
         /\ df.rows[k].timestamp <= now
    /\ \A k, l \in DOMAIN df.rows : k # l => df.rows[k].rowid # df.rows[l].rowid
    /\ \A k, l \in DOMAIN df.rows : k < l => df.rows[k].timestamp >= df.rows[l].timestamp

=============================================================================
